---- MODULE Spec2Model ----
(***************************************************************************)
(* sqlproxy: a database/sql driver (package driver) that forwards Query    *)
(* and Exec over TCP to a proxy service, and the two entry points of that  *)
(* service (cmd/proxy and its near-duplicate).                             *)
(*                                                                         *)
(* The model is byte-level on the wire.  A TCP stream is the queue of the  *)
(* bytes written to it and not yet read.  A conn.Write is one atomic       *)
(* append; an io.ReadFull of n bytes is one step that is taken once n      *)
(* bytes are there (or fails once the stream is shut).  msgpack is         *)
(* abbreviated to a 7-bit alphabet with the same structure: maps with      *)
(* named keys, strings, arrays, nil and small integers.                    *)
(***************************************************************************)
EXTENDS Integers, Sequences, FiniteSets, TLC

(* ------------------------------ bounds -------------------------------- *)

\* Query/Exec calls issued in one run, over all client threads.
MaxCalls == 2
\* Rows the backing engine returns for one query.
MaxRows == 2
\* The calls of Stmt.Close, and of Rows.Close, that are told apart.
MaxCloses == 2

\* Client threads, and the connections a client may dial.
Callers == {"t1", "t2"}
Conns == {"c1", "c2"}

\* The configured maximum frame size of the design (payload bytes).
MaxFrameSize == 10

(* ------------------------- wire alphabet ------------------------------ *)

\* Bytes 0..15 are msgpack positive fixints; the others stand for the
\* msgpack type bytes and for the characters of strings.
MaxFixInt == 15
TNil == 16
TStr == 17
TArr == 18
TMap == 19

\* Struct field names (`msgpack:"..."` tags), one byte each.
KQuery == 32
KArgs == 33
KColumns == 34
KData == 35
KRowsAffected == 36
KLastInsertID == 37
Keys == {KQuery, KArgs, KColumns, KData, KRowsAffected, KLastInsertID}

\* Characters of query texts and column names: a blank, and whole words.
ChSpace == 40
ChSELECT == 41
Chselect == 42
ChWITH == 43
ChUPDATE == 44
ChId == 45

\* The query texts a caller prepares: whitespace only, a lower-case select
\* behind a blank, a read that does not start with SELECT, and a write.
QueryTexts ==
  { <<ChSpace>>, <<ChSpace, Chselect>>, <<ChWITH, ChSpace, ChSELECT>>, <<ChUPDATE>> }

\* A driver.Value / interface{}: nil or an integer (or, decoded from bytes
\* this program never sends, the raw bytes of some other value).
NilValue == [kind |-> "nil"]
Int64(n) == [kind |-> "int64", v |-> n]
Raw(bs) == [kind |-> "raw", bytes |-> bs]

\* The argument lists a caller passes.
ArgLists == { <<>>, <<Int64(1)>> }

Nil == "nil"

(* --------------------------- sequences -------------------------------- *)

RECURSIVE Flatten(_)
Flatten(ss) == IF ss = <<>> THEN <<>> ELSE Head(ss) \o Flatten(Tail(ss))

Drop(s, n) == SubSeq(s, n + 1, Len(s))
Take(s, n) == SubSeq(s, 1, n)

(* ------------------------- encoding/binary ---------------------------- *)

\* The length with its least significant byte first.
PutUint32LittleEndian(n) ==
  << n % 256, (n \div 256) % 256, (n \div 65536) % 256, (n \div 16777216) % 256 >>

\* binary.BigEndian.PutUint32
PutUint32(n) ==
  << (n \div 16777216) % 256, (n \div 65536) % 256, (n \div 256) % 256, n % 256 >>

\* binary.BigEndian.Uint32 (every byte of the alphabet is below 128, so the
\* value stays below 2^31)
Uint32(b) == b[1] * 16777216 + b[2] * 65536 + b[3] * 256 + b[4]

(* ------------------------ msgpack.Marshal ----------------------------- *)

EncStr(s) == <<TStr, Len(s)>> \o s

EncValue(v) == IF v.kind = "nil" THEN <<TNil>> ELSE <<v.v>>

EncValues(vs) == <<TArr, Len(vs)>> \o Flatten([i \in DOMAIN vs |-> EncValue(vs[i])])

EncStrs(ss) == <<TArr, Len(ss)>> \o Flatten([i \in DOMAIN ss |-> EncStr(ss[i])])

\* A nil slice is encoded as nil.
EncRows(rs) ==
  IF rs = <<>> THEN <<TNil>>
  ELSE <<TArr, Len(rs)>> \o Flatten([i \in DOMAIN rs |-> EncValues(rs[i])])

\* QueryRequest and ExecRequest: the same two fields under the same names.
MarshalRequest(query, args) ==
  <<TMap, 2, KQuery>> \o EncStr(query) \o <<KArgs>> \o EncValues(args)

MarshalQueryResponse(columns, data) ==
  <<TMap, 2, KColumns>> \o EncStrs(columns) \o <<KData>> \o EncRows(data)

MarshalExecResponse(rowsAffected, lastInsertID) ==
  <<TMap, 2, KRowsAffected, rowsAffected, KLastInsertID, lastInsertID>>

(* ----------------------- msgpack.Unmarshal ---------------------------- *)

\* The position after the value that starts at p; 0 when the bytes end
\* early or the code is no msgpack code.
RECURSIVE SkipValue(_, _)
RECURSIVE SkipN(_, _, _)
SkipValue(d, p) ==
  IF p > Len(d) THEN 0
  ELSE IF d[p] <= MaxFixInt \/ d[p] = TNil \/ d[p] \in Keys THEN p + 1
  ELSE IF d[p] = TStr
    THEN IF p + 1 <= Len(d) /\ p + 1 + d[p + 1] <= Len(d) THEN p + 2 + d[p + 1] ELSE 0
  ELSE IF d[p] = TArr
    THEN IF p + 1 <= Len(d) THEN SkipN(d, p + 2, d[p + 1]) ELSE 0
  ELSE IF d[p] = TMap
    THEN IF p + 1 <= Len(d) THEN SkipN(d, p + 2, 2 * d[p + 1]) ELSE 0
  ELSE 0
SkipN(d, p, n) ==
  IF n = 0 THEN p
  ELSE LET q == SkipValue(d, p) IN IF q = 0 THEN 0 ELSE SkipN(d, q, n - 1)

\* Decoding a struct: the bytes must hold a whole map whose keys are field
\* names (or nil, which leaves the struct zero).  Bytes after the first
\* value are not looked at.
RECURSIVE KeysOk(_, _, _)
KeysOk(d, i, p) ==
  IF i = 0 THEN TRUE
  ELSE /\ p # 0 /\ p <= Len(d) /\ d[p] \in Keys
       /\ KeysOk(d, i - 1, SkipValue(d, p + 1))
StructOk(d) ==
  /\ Len(d) >= 1
  /\ \/ d[1] = TNil
     \/ /\ d[1] = TMap
        /\ SkipValue(d, 1) # 0
        /\ d[2] <= MaxFixInt
        /\ KeysOk(d, d[2], 3)

\* Where the value of field `key` starts (0: the map has no such key, and
\* the field keeps its zero value; fields of other names are skipped).
RECURSIVE FindKey(_, _, _, _)
FindKey(d, key, i, p) ==
  IF i = 0 THEN 0
  ELSE IF d[p] = key THEN p + 1
  ELSE FindKey(d, key, i - 1, SkipValue(d, p + 1))
FieldPos(d, key) == IF d[1] # TMap THEN 0 ELSE FindKey(d, key, d[2], 3)

DecodeValue(d, p) ==
  IF d[p] <= MaxFixInt THEN Int64(d[p])
  ELSE IF d[p] = TNil THEN NilValue
  ELSE Raw(SubSeq(d, p, SkipValue(d, p) - 1))

\* The start of the i-th element of the array at p.
ElemPos(d, p, i) == SkipN(d, p + 2, i - 1)

StringOk(d, p) == p = 0 \/ d[p] \in {TStr, TNil}
DecodeString(d, p) ==
  IF p = 0 \/ d[p] = TNil THEN <<>> ELSE SubSeq(d, p + 2, p + 1 + d[p + 1])

ValuesOk(d, p) == p = 0 \/ d[p] \in {TArr, TNil}
DecodeValues(d, p) ==
  IF p = 0 \/ d[p] = TNil THEN <<>>
  ELSE [i \in 1..d[p + 1] |-> DecodeValue(d, ElemPos(d, p, i))]

StringsOk(d, p) ==
  \/ p = 0
  \/ d[p] = TNil
  \/ d[p] = TArr /\ \A i \in 1..d[p + 1] : StringOk(d, ElemPos(d, p, i))
DecodeStrings(d, p) ==
  IF p = 0 \/ d[p] = TNil THEN <<>>
  ELSE [i \in 1..d[p + 1] |-> DecodeString(d, ElemPos(d, p, i))]

RowsOk(d, p) ==
  \/ p = 0
  \/ d[p] = TNil
  \/ d[p] = TArr /\ \A i \in 1..d[p + 1] : ValuesOk(d, ElemPos(d, p, i))
DecodeRows(d, p) ==
  IF p = 0 \/ d[p] = TNil THEN <<>>
  ELSE [i \in 1..d[p + 1] |-> DecodeValues(d, ElemPos(d, p, i))]

Int64Ok(d, p) == p = 0 \/ d[p] <= MaxFixInt
DecodeInt64(d, p) == IF p = 0 THEN 0 ELSE d[p]

\* msgpack.Unmarshal(data, &QueryRequest{}) and (data, &ExecRequest{}).
UnmarshalRequestOk(d) ==
  /\ StructOk(d)
  /\ StringOk(d, FieldPos(d, KQuery))
  /\ ValuesOk(d, FieldPos(d, KArgs))
\* What the struct holds after Unmarshal, also after a failed one, whose
\* error cmd/proxy drops: the fields decoded before the error keep their
\* values, the others stay zero.
UnmarshalRequest(d) ==
  IF UnmarshalRequestOk(d)
  THEN [query |-> DecodeString(d, FieldPos(d, KQuery)),
        args |-> DecodeValues(d, FieldPos(d, KArgs))]
  ELSE IF /\ Len(d) >= 4 /\ d[1] = TMap /\ d[3] = KQuery
          /\ d[4] = TStr /\ SkipValue(d, 4) # 0
  THEN [query |-> DecodeString(d, 4), args |-> <<>>]
  ELSE [query |-> <<>>, args |-> <<>>]

\* msgpack.Unmarshal(data, &QueryResponse{})
UnmarshalQueryResponseOk(d) ==
  /\ StructOk(d)
  /\ StringsOk(d, FieldPos(d, KColumns))
  /\ RowsOk(d, FieldPos(d, KData))
UnmarshalQueryResponse(d) ==
  [columns |-> DecodeStrings(d, FieldPos(d, KColumns)),
   data |-> DecodeRows(d, FieldPos(d, KData))]

\* msgpack.Unmarshal(data, &ExecResponse{})
UnmarshalExecResponseOk(d) ==
  /\ StructOk(d)
  /\ Int64Ok(d, FieldPos(d, KRowsAffected))
  /\ Int64Ok(d, FieldPos(d, KLastInsertID))
UnmarshalExecResponse(d) ==
  [rowsAffected |-> DecodeInt64(d, FieldPos(d, KRowsAffected)),
   lastInsertID |-> DecodeInt64(d, FieldPos(d, KLastInsertID))]

(* ------------------------------ state --------------------------------- *)

VARIABLES
  build,      \* the entry point the service runs: "proxy" or "queryservice"
  panic,      \* "none", or the connection whose worker panicked (the process is gone)
  connState,  \* per connection, the driver's Conn: Disconnected, Connected, Closed
  sock,       \* per connection, the client's net.Conn: "none", "open", "closed"
  c2s,        \* per connection, the bytes the client wrote and the worker has not
              \*   read, each [b, k, op, hdr]: thread k wrote byte b in a call of
              \*   op, as part of the length prefix (hdr) or of the payload
  s2c,        \* per connection, the bytes the worker wrote and the client has not
              \*   read, each [b, k, op, n, hdr]: the answer to the worker's n-th
              \*   frame, which thread k sent in a call of op
  worker,     \* per connection, the goroutine running handleConnection
  stmt,       \* per client thread, its prepared Stmt, and the calls of its Close
              \*   that have returned nil (counted up to MaxCloses)
  call,       \* per client thread, its Query/Exec in progress
  outcome,    \* per client thread, what its last Query/Exec returned
  cursor,     \* per client thread, the Rows its last Query returned
  begun,      \* per connection, what the last Begin returned
  nCalls      \* the Query/Exec calls issued so far

vars ==
  << build, panic, connState, sock, c2s, s2c, worker,
     stmt, call, outcome, cursor, begun, nCalls >>

wireVars == << c2s, s2c >>
serverVars == << panic, worker >>
clientVars == << connState, sock, stmt, call, outcome, cursor, begun, nCalls >>

Builds == {"proxy", "queryservice"}

NoOne == [k |-> "none", op |-> "none"]
NoStmt == [conn |-> "none", query |-> <<>>, closes |-> 0]
NoCall ==
  [pc |-> "idle", op |-> "none", req |-> <<>>, length |-> 0,
   from |-> {}, closedAtStart |-> FALSE]
NoOutcome == [kind |-> "none"]
NoRows == [open |-> FALSE]
NoBegin == [called |-> FALSE]

\* seq: the frames read so far; answered: the sendResponse calls that have
\* returned; rid: who sent the frame being served; engine: whether the
\* handler called the engine for it, and how that ended.
NoWorker ==
  [pc |-> "unborn", seq |-> 0, answered |-> 0, length |-> 0, data |-> <<>>,
   rid |-> NoOne, handler |-> "none", engine |-> "none", resp |-> <<>>]

Bytes(s) == [i \in DOMAIN s |-> s[i].b]
Senders(s) == {[k |-> s[i].k, op |-> s[i].op] : i \in DOMAIN s}
TagReq(bs, k, op, hdr) ==
  [i \in DOMAIN bs |-> [b |-> bs[i], k |-> k, op |-> op, hdr |-> hdr]]
TagResp(bs, rid, n, hdr) ==
  [i \in DOMAIN bs |-> [b |-> bs[i], k |-> rid.k, op |-> rid.op, n |-> n, hdr |-> hdr]]

Init ==
  /\ build \in Builds
  /\ panic = "none"
  /\ connState = [c \in Conns |-> "Disconnected"]
  /\ sock = [c \in Conns |-> "none"]
  /\ c2s = [c \in Conns |-> <<>>]
  /\ s2c = [c \in Conns |-> <<>>]
  /\ worker = [c \in Conns |-> NoWorker]
  /\ stmt = [k \in Callers |-> NoStmt]
  /\ call = [k \in Callers |-> NoCall]
  /\ outcome = [k \in Callers |-> NoOutcome]
  /\ cursor = [k \in Callers |-> NoRows]
  /\ begun = [c \in Conns |-> NoBegin]
  /\ nCalls = 0

(* ------------------------- the TCP connection ------------------------- *)

\* The service's end of connection c is gone: its worker returned (the
\* deferred conn.Close) or the process died.
ServerGone(c) == worker[c].pc \in {"closed", "crashed"} \/ panic # "none"

\* The client's end is gone: Conn.Close closed the socket.
ClientGone(c) == sock[c] = "closed"

\* A client conn.Write of bs.  It fails on a socket this side closed; once
\* the peer is gone it may fail or still be accepted, and then the bytes
\* reach no reader.
ClientWrite(c, bs, ok) ==
  /\ sock[c] # "closed" \/ ~ok
  /\ ok \/ sock[c] = "closed" \/ ServerGone(c)
  /\ c2s' = IF ok /\ ~ServerGone(c) THEN [c2s EXCEPT ![c] = @ \o bs] ELSE c2s

\* io.ReadFull(conn, buf) with len(buf) = n on the client's socket:
\* "ok" once n bytes are there, "err" on a socket this side closed or when
\* the peer is gone with fewer than n bytes left, "wait" otherwise.  With
\* n = 0 it returns at once, without a read.
ClientReadFull(c, n) ==
  IF n = 0 THEN "ok"
  ELSE IF sock[c] = "closed" THEN "err"
  ELSE IF Len(s2c[c]) >= n THEN "ok"
  ELSE IF ServerGone(c) THEN "err"
  ELSE "wait"

\* What a client read that ended r leaves of the stream.
AfterClientRead(c, n, r) ==
  IF r = "ok" THEN Drop(s2c[c], n)
  ELSE IF sock[c] = "closed" THEN s2c[c]
  ELSE <<>>

(* --------------------------- driver: Conn ----------------------------- *)

\* Driver.Open: one net.Dial, which fails when nothing listens.
Open(c) ==
  /\ connState[c] = "Disconnected"
  /\ panic = "none"
  /\ connState' = [connState EXCEPT ![c] = "Connected"]
  /\ sock' = [sock EXCEPT ![c] = "open"]
  /\ UNCHANGED << build, wireVars, serverVars, stmt, call, outcome, cursor, begun, nCalls >>

\* A Prepare that sends the text to the service.
PrepareRemote(k, c, q) ==
  /\ connState[c] # "Disconnected"
  /\ call[k].pc = "idle"
  /\ stmt[k] = NoStmt
  /\ stmt' = [stmt EXCEPT ![k] = [conn |-> c, query |-> q, closes |-> 0]]
  /\ c2s' = [c2s EXCEPT ![c] = @ \o TagReq(EncStr(q), k, "Prepare", FALSE)]
  /\ UNCHANGED << build, s2c, serverVars, connState, sock, call, outcome, cursor, begun, nCalls >>

\* Conn.Prepare
Prepare(k, c, q) ==
  /\ connState[c] # "Disconnected"
  /\ call[k].pc = "idle"
  /\ stmt[k] = NoStmt
  /\ stmt' = [stmt EXCEPT ![k] = [conn |-> c, query |-> q, closes |-> 0]]
  /\ UNCHANGED << build, wireVars, serverVars, connState, sock, call, outcome, cursor, begun, nCalls >>

\* A Close that leaves the socket as it was.
SockLeftOpen(s) == s

\* What c.conn.Close() leaves of the socket.
ClosedSock(s) == "closed"

\* Conn.Close
Close(c) ==
  /\ connState[c] = "Connected"
  /\ connState' = [connState EXCEPT ![c] = "Closed"]
  /\ sock' = [sock EXCEPT ![c] = ClosedSock(sock[c])]
  /\ UNCHANGED << build, wireVars, serverVars, stmt, call, outcome, cursor, begun, nCalls >>

\* A Begin that hands out a transaction.
BeginTx == [called |-> TRUE, tx |-> "tx", err |-> Nil]

\* What Conn.Begin returns.
BeginResult == [called |-> TRUE, tx |-> Nil, err |-> "transactions are not supported"]

\* Conn.Begin, called by thread k.
Begin(k, c) ==
  /\ connState[c] # "Disconnected"
  /\ call[k].pc = "idle"
  /\ begun' = [begun EXCEPT ![c] = BeginResult]
  /\ UNCHANGED << build, wireVars, serverVars, connState, sock, stmt, call, outcome, cursor, nCalls >>

(* --------------------------- driver: Stmt ----------------------------- *)

\* A call that drops its error and returns an empty Result.
ErrSwallowed(cl, msg) ==
  [kind |-> "result", op |-> cl.op, closedAtStart |-> cl.closedAtStart,
   from |-> cl.from, rowsAffected |-> 0, lastInsertID |-> 0]

\* A call that returned (nil, err).  closedAtStart: Conn.Close had been
\* called when the call began; from: whose answers the bytes it read were.
ErrOutcome(cl, msg) ==
  [kind |-> "error", op |-> cl.op, err |-> msg,
   closedAtStart |-> cl.closedAtStart, from |-> cl.from]

\* Stmt.Query and Stmt.Exec up to the first write of sendRequest: the
\* request is marshalled and its 4-byte length is written.
StartCall(k, op, args, ok) ==
  LET c == stmt[k].conn
      data == MarshalRequest(stmt[k].query, args)
      cl == [pc |-> "sendData", op |-> op, req |-> data, length |-> 0,
             from |-> {}, closedAtStart |-> connState[c] = "Closed"]
  IN  /\ stmt[k] # NoStmt
      /\ call[k].pc = "idle"
      /\ nCalls < MaxCalls
      /\ nCalls' = nCalls + 1
      /\ ClientWrite(c, TagReq(PutUint32(Len(data)), k, op, TRUE), ok)
      /\ IF ok
         THEN call' = [call EXCEPT ![k] = cl] /\ UNCHANGED outcome
         ELSE /\ call' = [call EXCEPT ![k] = NoCall]
              /\ outcome' = [outcome EXCEPT ![k] = ErrOutcome(cl, "write")]
      /\ UNCHANGED << build, s2c, serverVars, connState, sock, stmt, cursor, begun >>

\* Stmt.Query
Query(k, args, ok) == StartCall(k, "Query", args, ok)

\* Stmt.Exec
Exec(k, args, ok) == StartCall(k, "Exec", args, ok)

\* sendRequest, its second write: the payload.
SendData(k, ok) ==
  LET c == stmt[k].conn IN
  /\ call[k].pc = "sendData"
  /\ ClientWrite(c, TagReq(call[k].req, k, call[k].op, FALSE), ok)
  /\ IF ok
     THEN call' = [call EXCEPT ![k].pc = "recvLen"] /\ UNCHANGED outcome
     ELSE /\ call' = [call EXCEPT ![k] = NoCall]
          /\ outcome' = [outcome EXCEPT ![k] = ErrOutcome(call[k], "write")]
  /\ UNCHANGED << build, s2c, serverVars, connState, sock, stmt, cursor, begun, nCalls >>

\* readQueryResponse / readExecResponse: the 4-byte length prefix.
RecvLen(k) ==
  LET c == stmt[k].conn
      r == ClientReadFull(c, 4)
      got == Take(s2c[c], 4)
  IN  /\ call[k].pc = "recvLen"
      /\ r # "wait"
      /\ s2c' = [s2c EXCEPT ![c] = AfterClientRead(c, 4, r)]
      /\ IF r = "ok"
         THEN /\ call' = [call EXCEPT ![k].pc = "recvData",
                                      ![k].length = Uint32(Bytes(got)),
                                      ![k].from = Senders(got)]
              /\ UNCHANGED outcome
         ELSE /\ call' = [call EXCEPT ![k] = NoCall]
              /\ outcome' = [outcome EXCEPT ![k] = ErrOutcome(call[k], "read")]
      /\ UNCHANGED << build, c2s, serverVars, connState, sock, stmt, cursor, begun, nCalls >>

\* &Rows{columns: response.Columns, data: response.Data}; database/sql
\* hands Next a dest as wide as Columns().
NewRows(response) ==
  [open |-> TRUE, columns |-> response.columns, data |-> response.data, index |-> 0,
   dest |-> [i \in 1..Len(response.columns) |-> NilValue],
   last |-> "none", delivered |-> <<>>, eofs |-> 0, closes |-> 0]

\* What Stmt.Query / Stmt.Exec returns for the payload it read.
Decoded(cl, data) ==
  IF cl.op = "Query"
  THEN IF UnmarshalQueryResponseOk(data)
       THEN [kind |-> "rows", op |-> cl.op,
             closedAtStart |-> cl.closedAtStart, from |-> cl.from]
       ELSE ErrOutcome(cl, "decode")
  ELSE IF UnmarshalExecResponseOk(data)
       THEN [kind |-> "result", op |-> cl.op,
             closedAtStart |-> cl.closedAtStart, from |-> cl.from,
             rowsAffected |-> UnmarshalExecResponse(data).rowsAffected,
             lastInsertID |-> UnmarshalExecResponse(data).lastInsertID]
       ELSE ErrOutcome(cl, "decode")

\* readQueryResponse / readExecResponse: the payload, decoded into the
\* response struct of the call; then the return of Stmt.Query / Stmt.Exec.
RecvData(k) ==
  LET c == stmt[k].conn
      cl == call[k]
      r == ClientReadFull(c, cl.length)
      got == Take(s2c[c], cl.length)
      done == [cl EXCEPT !.from = @ \cup Senders(got)]
  IN  /\ cl.pc = "recvData"
      /\ r # "wait"
      /\ call' = [call EXCEPT ![k] = NoCall]
      /\ s2c' = [s2c EXCEPT ![c] = AfterClientRead(c, cl.length, r)]
      /\ outcome' = [outcome EXCEPT ![k] =
           IF r = "ok" THEN Decoded(done, Bytes(got)) ELSE ErrOutcome(cl, "read")]
      /\ cursor' = [cursor EXCEPT ![k] =
           IF r = "ok" /\ Decoded(done, Bytes(got)).kind = "rows"
           THEN NewRows(UnmarshalQueryResponse(Bytes(got))) ELSE @]
      /\ UNCHANGED << build, c2s, serverVars, connState, sock, stmt, begun, nCalls >>

(* --------------------------- driver: Rows ----------------------------- *)

\* copy(dest, src): the first min(len(dest), len(src)) elements.
Copy(dest, src) ==
  [i \in DOMAIN dest |-> IF i <= Len(src) THEN src[i] ELSE dest[i]]

\* A Next that walks the rows from the last to the first.
RowsNextReversed(r) ==
  IF r.index >= Len(r.data)
  THEN [r EXCEPT !.last = "EOF", !.eofs = IF @ < 2 THEN @ + 1 ELSE @]
  ELSE [r EXCEPT !.dest = Copy(@, r.data[Len(r.data) - r.index]),
                 !.index = @ + 1,
                 !.last = "row",
                 !.delivered = Append(@, Copy(r.dest, r.data[Len(r.data) - r.index]))]

\* A Next that rewinds the cursor when it reports io.EOF.
RowsNextRewinds(r) ==
  IF r.index >= Len(r.data)
  THEN [r EXCEPT !.last = "EOF", !.eofs = IF @ < 2 THEN @ + 1 ELSE @,
                 !.index = 0, !.delivered = <<>>]
  ELSE [r EXCEPT !.dest = Copy(@, r.data[r.index + 1]),
                 !.index = @ + 1,
                 !.last = "row",
                 !.delivered = Append(@, Copy(r.dest, r.data[r.index + 1]))]

\* Rows.Next on the cursor r: the cursor after the call.  last is what the
\* call returned ("row" for nil, "EOF" for io.EOF); delivered lists what
\* dest held after each call that returned nil; eofs counts, up to 2, the
\* calls that returned io.EOF.
RowsNext(r) ==
  IF r.index >= Len(r.data)
  THEN [r EXCEPT !.last = "EOF", !.eofs = IF @ < 2 THEN @ + 1 ELSE @]
  ELSE [r EXCEPT !.dest = Copy(@, r.data[r.index + 1]),
                 !.index = @ + 1,
                 !.last = "row",
                 !.delivered = Append(@, Copy(r.dest, r.data[r.index + 1]))]

\* A call of Rows.Next by the thread that holds the cursor.
RowsNextCall(k) ==
  /\ cursor[k] # NoRows
  /\ call[k].pc = "idle"
  /\ cursor' = [cursor EXCEPT ![k] = RowsNext(@)]
  /\ UNCHANGED << build, wireVars, serverVars, connState, sock, stmt, call, outcome, begun, nCalls >>

\* A Close of a statement that closes the connection under it.
StmtCloseHangsUp(k) ==
  /\ stmt[k] # NoStmt
  /\ call[k].pc = "idle"
  /\ stmt' = [stmt EXCEPT ![k].closes = IF @ < MaxCloses THEN @ + 1 ELSE @]
  /\ connState' = [connState EXCEPT ![stmt[k].conn] = "Closed"]
  /\ sock' = [sock EXCEPT ![stmt[k].conn] = "closed"]
  /\ UNCHANGED << build, wireVars, serverVars, call, outcome, cursor, begun, nCalls >>

\* Stmt.Close: return nil.
StmtClose(k) ==
  /\ stmt[k] # NoStmt
  /\ call[k].pc = "idle"
  /\ stmt' = [stmt EXCEPT ![k].closes = IF @ < MaxCloses THEN @ + 1 ELSE @]
  /\ UNCHANGED << build, wireVars, serverVars, connState, sock, call, outcome, cursor, begun, nCalls >>

\* Rows.Close: return nil.
RowsClose(k) ==
  /\ cursor[k] # NoRows
  /\ call[k].pc = "idle"
  /\ cursor' = [cursor EXCEPT ![k].closes = IF @ < MaxCloses THEN @ + 1 ELSE @]
  /\ UNCHANGED << build, wireVars, serverVars, connState, sock, stmt, call, outcome, begun, nCalls >>

(* ----------------------- service: the strings -------------------------- *)

\* strings.TrimSpace
RECURSIVE TrimLeft(_)
TrimLeft(q) == IF q # <<>> /\ Head(q) = ChSpace THEN TrimLeft(Tail(q)) ELSE q
RECURSIVE TrimRight(_)
TrimRight(q) ==
  IF q # <<>> /\ q[Len(q)] = ChSpace THEN TrimRight(Take(q, Len(q) - 1)) ELSE q
TrimSpace(q) == TrimRight(TrimLeft(q))

\* strings.Fields: the maximal runs of non-blank characters.
RECURSIVE Fields(_)
Fields(q) ==
  LET t == TrimLeft(q)
      blanks == {i \in DOMAIN t : t[i] = ChSpace}
      end == IF blanks = {} THEN Len(t)
             ELSE (CHOOSE i \in blanks : \A j \in blanks : i <= j) - 1
  IN  IF t = <<>> THEN <<>> ELSE <<Take(t, end)>> \o Fields(Drop(t, end))

ToUpper(w) == [i \in DOMAIN w |-> IF w[i] = Chselect THEN ChSELECT ELSE w[i]]

(* ------------------------ service: the engine ------------------------- *)

\* What db.Query and db.Exec may return: an error, or n, the number of
\* rows of the result set (row i is <<i>> under one column) or the rows
\* affected of a write with id, its last insert id.  result.RowsAffected()
\* and result.LastInsertId() return 0 with the error of an engine that does
\* not support them.
EngineFail == [ok |-> FALSE, n |-> 0]
EngineQueryResults == {EngineFail} \cup {[ok |-> TRUE, n |-> i] : i \in 0..MaxRows}
EngineExecOk == {[ok |-> TRUE, n |-> 1, id |-> 0], [ok |-> TRUE, n |-> 0, id |-> 2]}
EngineExecResults == {EngineFail} \cup EngineExecOk

EngineColumns == << <<ChId>> >>
EngineRows(n) == [i \in 1..n |-> <<Int64(i)>>]

(* -------------------- service: classify and handle -------------------- *)

\* isQuery of cmd/proxy: the payload decodes as a QueryRequest.
ProxyIsQuery(data) == IF UnmarshalRequestOk(data) THEN "true" ELSE "false"

\* isQuery of the second entry point: the payload decodes and the first
\* word of the text is SELECT in any case; "panic" is the index out of
\* range of strings.Fields(query)[0] on a text with no word.
ServiceIsQuery(data) ==
  IF ~UnmarshalRequestOk(data) THEN "false"
  ELSE LET query == TrimSpace(UnmarshalRequest(data).query)
       IN  IF Fields(query) = <<>> THEN "panic"
           ELSE IF ToUpper(Fields(query)[1]) = <<ChSELECT>> THEN "true" ELSE "false"

\* The response a handler marshals from the engine's result e.
ResponseFor(handler, e) ==
  IF handler = "handleQuery"
  THEN MarshalQueryResponse(EngineColumns, EngineRows(e.n))
  ELSE MarshalExecResponse(e.n, e.id)

\* handleQuery / handleExec of cmd/proxy, every error dropped: the request
\* is whatever Unmarshal left, and an engine error leaves a nil *sql.Rows
\* or a nil sql.Result, whose first use panics.
ProxyHandle(handler, data, e) ==
  IF ~e.ok
  THEN [do |-> "panic", engine |-> "fail", resp |-> <<>>]
  ELSE [do |-> "respond", engine |-> "ok", resp |-> ResponseFor(handler, e)]

\* handleQuery / handleExec of the second entry point: a decode error or
\* an engine error is returned, and handleConnection returns on it.
ServiceHandle(handler, data, e) ==
  IF ~UnmarshalRequestOk(data)
  THEN [do |-> "return", engine |-> "none", resp |-> <<>>]
  ELSE IF ~e.ok
  THEN [do |-> "return", engine |-> "fail", resp |-> <<>>]
  ELSE [do |-> "respond", engine |-> "ok", resp |-> ResponseFor(handler, e)]

(* ---------------------- service: handleConnection --------------------- *)

\* A panic in one goroutine ends the process: every worker is gone.
Crash(c, w) ==
  /\ panic' = c
  /\ worker' = [d \in Conns |->
       IF d = c THEN [w EXCEPT !.pc = "crashed"]
       ELSE IF worker[d].pc \in {"unborn", "closed"} THEN worker[d]
       ELSE [worker[d] EXCEPT !.pc = "crashed"]]

\* main's accept loop: listener.Accept and go handleConnection.
Accept(c) ==
  /\ panic = "none"
  /\ sock[c] # "none"
  /\ worker[c].pc = "unborn"
  /\ worker' = [worker EXCEPT ![c].pc = "readLen"]
  /\ UNCHANGED << build, panic, wireVars, clientVars >>

\* A read that waits on, whatever became of the client.
ServerReadBlocks(c, n) ==
  IF n = 0 THEN "ok"
  ELSE IF Len(c2s[c]) >= n THEN "ok"
  ELSE "wait"

\* io.ReadFull on the worker's socket.
ServerReadFull(c, n) ==
  IF n = 0 THEN "ok"
  ELSE IF Len(c2s[c]) >= n THEN "ok"
  ELSE IF ClientGone(c) THEN "err"
  ELSE "wait"

\* What a worker's read that ended r leaves of the stream.
AfterServerRead(c, n, r) == IF r = "ok" THEN Drop(c2s[c], n) ELSE <<>>

\* The worker on its way back to the top of the loop, or out of it.
Reset(w, pc) ==
  [w EXCEPT !.pc = pc, !.length = 0, !.data = <<>>, !.rid = NoOne,
            !.handler = "none", !.engine = "none", !.resp = <<>>]

\* handleConnection: the 4 length bytes; on an error the worker returns.
ReadLength(c) ==
  LET w == worker[c]
      r == ServerReadFull(c, 4)
      got == Take(c2s[c], 4)
  IN  /\ w.pc = "readLen"
      /\ r # "wait"
      /\ c2s' = [c2s EXCEPT ![c] = AfterServerRead(c, 4, r)]
      /\ worker' = [worker EXCEPT ![c] =
           IF r = "ok"
           THEN [w EXCEPT !.pc = "readData", !.length = Uint32(Bytes(got)),
                          !.rid = [k |-> got[1].k, op |-> got[1].op]]
           ELSE Reset(w, "closed")]
      /\ UNCHANGED << build, panic, s2c, clientVars >>

\* handleConnection: make([]byte, length) and the payload.
ReadPayload(c) ==
  LET w == worker[c]
      r == ServerReadFull(c, w.length)
      got == Take(c2s[c], w.length)
  IN  /\ w.pc = "readData"
      /\ r # "wait"
      /\ c2s' = [c2s EXCEPT ![c] = AfterServerRead(c, w.length, r)]
      /\ worker' = [worker EXCEPT ![c] =
           IF r = "ok"
           THEN [w EXCEPT !.pc = "handle", !.data = Bytes(got), !.seq = @ + 1,
                          !.rid = IF got = <<>> THEN @
                                  ELSE [k |-> got[1].k, op |-> got[1].op]]
           ELSE Reset(w, "closed")]
      /\ UNCHANGED << build, panic, s2c, clientVars >>

\* A worker that reads the next frame while the response is still to be written.
AfterHandlerPipelined(w) == "readLen"

\* Where the worker goes once its handler has marshalled a response.
AfterHandler(w) == "writeLen"

\* handleConnection: isQuery, then handleQuery or handleExec up to the
\* marshalled response; e is what the engine returns if it is called.
Handle(c, e) ==
  LET w == worker[c]
      isq == IF build = "proxy" THEN ProxyIsQuery(w.data) ELSE ServiceIsQuery(w.data)
      handler == IF isq = "true" THEN "handleQuery" ELSE "handleExec"
      res == IF build = "proxy" THEN ProxyHandle(handler, w.data, e)
             ELSE ServiceHandle(handler, w.data, e)
      h == [w EXCEPT !.handler = handler, !.engine = res.engine, !.resp = res.resp]
  IN  /\ w.pc = "handle"
      /\ e \in (IF handler = "handleQuery" THEN EngineQueryResults ELSE EngineExecResults)
      /\ IF isq = "panic"
         THEN Crash(c, w)
         ELSE IF res.do = "panic"
         THEN Crash(c, h)
         ELSE IF res.do = "return"
         THEN worker' = [worker EXCEPT ![c] = [h EXCEPT !.pc = "closed"]] /\ UNCHANGED panic
         ELSE worker' = [worker EXCEPT ![c] = [h EXCEPT !.pc = AfterHandler(h)]] /\ UNCHANGED panic
      /\ UNCHANGED << build, wireVars, clientVars >>

\* A conn.Write of the worker.  It fails only once the client is gone, and
\* may still be accepted then, when the bytes reach no reader.
ServerWrite(c, bs, ok) ==
  /\ ok \/ ClientGone(c)
  /\ s2c' = IF ok /\ ~ClientGone(c)
            THEN [s2c EXCEPT ![c] = @ \o TagResp(bs, worker[c].rid, worker[c].seq,
                                                   worker[c].pc = "writeLen")]
            ELSE s2c

\* sendResponse: the 4 length bytes; on an error it returns, and the loop
\* of handleConnection goes on.
WriteLength(c, ok) ==
  LET w == worker[c] IN
  /\ w.pc = "writeLen"
  /\ ServerWrite(c, PutUint32(Len(w.resp)), ok)
  /\ worker' = [worker EXCEPT ![c] =
       IF ok THEN [w EXCEPT !.pc = "writeData"]
       ELSE [Reset(w, "readLen") EXCEPT !.answered = @ + 1]]
  /\ UNCHANGED << build, panic, c2s, clientVars >>

\* sendResponse: the payload; its error is logged only.
WritePayload(c, ok) ==
  LET w == worker[c] IN
  /\ w.pc = "writeData"
  /\ ServerWrite(c, w.resp, ok)
  /\ worker' = [worker EXCEPT ![c] = [Reset(w, "readLen") EXCEPT !.answered = @ + 1]]
  /\ UNCHANGED << build, panic, c2s, clientVars >>

(* ------------------------- a peer on the socket ----------------------- *)

\* The payloads a TCP client other than the driver sends: no bytes at all,
\* a value that is no map, a map whose query is no string, and a request.
RawPayloads ==
  { <<>>, <<TArr, 0>>, <<TMap, 1, KQuery, TArr, 0>>, MarshalRequest(<<ChUPDATE>>, <<>>) }

\* The frame of payload p: its length, big-endian, in 4 bytes, then p.
Frame(p) ==
  TagReq(PutUint32(Len(p)), "peer", "none", TRUE) \o TagReq(p, "peer", "none", FALSE)

\* The peer connects; no Conn of the driver stands for it.
PeerDial(c) ==
  /\ sock[c] = "none"
  /\ connState[c] = "Disconnected"
  /\ panic = "none"
  /\ sock' = [sock EXCEPT ![c] = "open"]
  /\ UNCHANGED << build, wireVars, serverVars, connState, stmt, call, outcome, cursor, begun, nCalls >>

\* The peer writes the first n bytes of the frame of p: all of it, or a
\* part after which it is gone, so that the frame is never completed.
PeerSend(c, p, n) ==
  /\ sock[c] = "open"
  /\ connState[c] = "Disconnected"
  /\ nCalls < MaxCalls
  /\ nCalls' = nCalls + 1
  /\ n \in 1..Len(Frame(p))
  /\ c2s' = IF ServerGone(c) THEN c2s ELSE [c2s EXCEPT ![c] = @ \o Take(Frame(p), n)]
  /\ sock' = IF n = Len(Frame(p)) THEN sock ELSE [sock EXCEPT ![c] = "closed"]
  /\ UNCHANGED << build, s2c, serverVars, connState, stmt, call, outcome, cursor, begun >>

\* The peer closes its socket, reading nothing of what was sent to it.
PeerClose(c) ==
  /\ sock[c] = "open"
  /\ connState[c] = "Disconnected"
  /\ sock' = [sock EXCEPT ![c] = "closed"]
  /\ UNCHANGED << build, wireVars, serverVars, connState, stmt, call, outcome, cursor, begun, nCalls >>

\* The steps of a peer on the connections C.
Peer(C) ==
  \/ \E c \in C : PeerDial(c)
  \/ \E c \in C, p \in RawPayloads, n \in 1..(4 + MaxFrameSize) : PeerSend(c, p, n)
  \/ \E c \in C : PeerClose(c)

(* --------------------------- specification ---------------------------- *)

\* The steps of the service for the connections C.
Service(C) ==
  \/ \E c \in C : Accept(c)
  \/ \E c \in C : ReadLength(c)
  \/ \E c \in C : ReadPayload(c)
  \/ \E c \in C, e \in EngineQueryResults \cup EngineExecResults : Handle(c, e)
  \/ \E c \in C, ok \in BOOLEAN : WriteLength(c, ok)
  \/ \E c \in C, ok \in BOOLEAN : WritePayload(c, ok)

\* Driver.Open and Conn.Close on the connections C.
Dial(C) == \E c \in C : Open(c)
Hangup(C) == \E c \in C : Close(c)

\* The calls that reach the wire, by the threads K on the connections C,
\* with the query texts Q and the argument lists A.
Remote(K, C, Q, A) ==
  \/ \E k \in K, c \in C, q \in Q : Prepare(k, c, q)
  \/ \E k \in K, a \in A, ok \in BOOLEAN : Query(k, a, ok)
  \/ \E k \in K, a \in A, ok \in BOOLEAN : Exec(k, a, ok)
  \/ \E k \in K, ok \in BOOLEAN : SendData(k, ok)
  \/ \E k \in K : RecvLen(k)
  \/ \E k \in K : RecvData(k)

\* The calls that stay in the driver.
Local(K, C) ==
  \/ \E k \in K, c \in C : Begin(k, c)
  \/ \E k \in K : RowsNextCall(k)

\* Stmt.Close and Rows.Close.
Closes(K) ==
  \/ \E k \in K : StmtClose(k)
  \/ \E k \in K : RowsClose(k)

\* Every thread on every connection.
Next ==
  \/ Dial(Conns)
  \/ Hangup(Conns)
  \/ Remote(Callers, Conns, QueryTexts, ArgLists)
  \/ Local(Callers, Conns)
  \/ Closes(Callers)
  \/ Peer(Conns)
  \/ Service(Conns)
Spec == Init /\ [][Next]_vars

\* The behaviours of Spec that are checked, each a part of Next.

\* One thread on one connection, with every call of the driver.
NextSession ==
  \/ Dial({"c1"})
  \/ Hangup({"c1"})
  \/ Remote({"t1"}, {"c1"}, QueryTexts, ArgLists)
  \/ Local({"t1"}, {"c1"})
  \/ Service({"c1"})
SpecSession == Init /\ [][NextSession]_vars

\* The same session under a scheduler that lets the goroutines of the
\* service run: the accept loop accepts a connection that waits, a worker
\* blocked in a read goes on once the read can return, and a write of
\* sendResponse returns.  Nothing is assumed of the callers or of the
\* engine.
FairSession ==
  /\ Init /\ [][NextSession]_vars
  /\ WF_vars(Accept("c1"))
  /\ WF_vars(ReadLength("c1"))
  /\ WF_vars(ReadPayload("c1"))
  /\ WF_vars(\E ok \in BOOLEAN : WriteLength("c1", ok))
  /\ WF_vars(\E ok \in BOOLEAN : WritePayload("c1", ok))

\* Two threads that share one open connection, each with a read or a write.
NextShared ==
  \/ Dial({"c1"})
  \/ Remote(Callers, {"c1"}, {<<ChSpace, Chselect>>, <<ChUPDATE>>}, {<<>>})
  \/ Service({"c1"})
SpecShared == Init /\ [][NextShared]_vars

\* Two threads, each on a connection of its own.
NextPair ==
  \/ Dial(Conns)
  \/ Hangup(Conns)
  \/ Remote({"t1"}, {"c1"}, {<<ChSpace>>, <<ChUPDATE>>}, {<<>>})
  \/ Remote({"t2"}, {"c2"}, {<<ChSpace>>, <<ChUPDATE>>}, {<<>>})
  \/ Service(Conns)
SpecPair == Init /\ [][NextPair]_vars

\* One thread of the driver on c1 and a peer on c2.
NextWire ==
  \/ Dial({"c1"})
  \/ Hangup({"c1"})
  \/ Remote({"t1"}, {"c1"}, {<<ChSpace, Chselect>>, <<ChUPDATE>>}, {<<>>})
  \/ Peer({"c2"})
  \/ Service(Conns)
SpecWire == Init /\ [][NextWire]_vars

\* One thread on one open connection that closes its statement and its rows.
NextLocal ==
  \/ Dial({"c1"})
  \/ Remote({"t1"}, {"c1"}, {<<ChSpace, Chselect>>, <<ChUPDATE>>}, {<<>>})
  \/ \E k \in {"t1"} : RowsNextCall(k)
  \/ Closes({"t1"})
  \/ Service({"c1"})
SpecLocal == Init /\ [][NextLocal]_vars

(* ------------------------------ claims -------------------------------- *)

\* The handler that serves a call of op.
HandlerOf(op) == IF op = "Query" THEN "handleQuery" ELSE "handleExec"

\* C1: a request sent by Stmt.Query is handled by handleQuery and one sent
\* by Stmt.Exec by handleExec, whatever its text and arguments.
C1_OpcodeCorrect ==
  \A c \in Conns :
    worker[c].handler # "none" => worker[c].handler = HandlerOf(worker[c].rid.op)

\* C2: when the engine fails a request, the worker does not leave its loop
\* and the process does not end: the worker goes on to write a response.
C2_EngineFailureReported ==
  \A c \in Conns :
    worker[c].engine = "fail" =>
      panic = "none" /\ worker[c].pc \in {"writeLen", "writeData"}

\* C3: on a shared connection no two request frames are mixed (a length
\* prefix is followed by bytes of the same thread), and no call reads
\* bytes of the answer to another thread's request.
C3_NoInterleaving ==
  /\ \A c \in Conns : \A i \in 1..(Len(c2s[c]) - 1) :
       c2s[c][i].hdr => c2s[c][i + 1].k = c2s[c][i].k
  /\ \A k \in Callers :
       /\ \A f \in call[k].from : f.k = k
       /\ outcome[k].kind # "none" => \A f \in outcome[k].from : f.k = k

\* C4: a worker serves one frame at a time.  While it reads, every frame
\* it has read has been answered (its sendResponse has returned); while it
\* serves a frame, that frame alone is unanswered; and the answers queued
\* on the connection are in the order of the frames, none for a frame
\* not yet read.
C4_Sequential ==
  \A c \in Conns :
    LET w == worker[c] IN
    /\ w.pc \in {"readLen", "readData"} => w.answered = w.seq
    /\ w.pc \in {"handle", "writeLen", "writeData"} => w.answered = w.seq - 1
    /\ \A i \in 1..(Len(s2c[c]) - 1) : s2c[c][i].n <= s2c[c][i + 1].n
    /\ \A i \in 1..Len(s2c[c]) :
         /\ s2c[c][i].n <= w.seq
         /\ s2c[c][i].n = w.seq /\ w.pc \in {"readLen", "readData"} => w.answered = w.seq

\* Two requests were pipelined on c1, and both answers are queued.
C4_Witness ==
  /\ worker["c1"].seq = 2
  /\ worker["c1"].pc = "readLen"
  /\ \E i, j \in 1..Len(s2c["c1"]) : s2c["c1"][i].n = 1 /\ s2c["c1"][j].n = 2

\* C5: a failure on one connection ends no other worker and leaves no
\* other dialled connection without the accept loop.
C5_WorkersIndependent ==
  \A c, d \in Conns :
    panic = c /\ d # c =>
      /\ worker[d].pc # "crashed"
      /\ ~(worker[d].pc = "unborn" /\ sock[d] = "open")

\* C6: Conn.Begin returns an error and no transaction, and changes nothing
\* else: no byte is written or read and the connection stays as it was.
C6_BeginUnsupported ==
  /\ [](\A c \in Conns : begun[c].called => begun[c].tx = Nil /\ begun[c].err # Nil)
  /\ [][\A k \in Callers, c \in Conns :
          Begin(k, c) => UNCHANGED << wireVars, serverVars, connState, sock, stmt,
                                       call, outcome, cursor, nCalls >>]_vars

\* Begin was called on a connection that had served a call and was closed.
C6_Witness ==
  begun["c1"].called /\ nCalls > 0 /\ connState["c1"] = "Closed"

\* C7: no receiver holds a buffer of a declared length above the maximum.
C7_FrameTooLarge ==
  /\ \A c \in Conns : worker[c].pc = "readData" => worker[c].length <= MaxFrameSize
  /\ \A k \in Callers : call[k].pc = "recvData" => call[k].length <= MaxFrameSize

\* C8: the calls of Next that return a row deliver rows 1, 2, ... of the
\* response in that order, each once; the index never exceeds the number
\* of rows, a call on an unexhausted cursor returns the next row, and no
\* call lowers the index.
C8_RowsInOrder ==
  /\ [](\A k \in Callers : cursor[k].open =>
          /\ cursor[k].index \in 0..Len(cursor[k].data)
          /\ cursor[k].delivered = Take(cursor[k].data, cursor[k].index))
  /\ [][\A k \in Callers : RowsNextCall(k) =>
          /\ cursor'[k].index >= cursor[k].index
          /\ cursor[k].index < Len(cursor[k].data) =>
               /\ cursor'[k].last = "row"
               /\ cursor'[k].index = cursor[k].index + 1
               /\ cursor'[k].dest = cursor[k].data[cursor[k].index + 1]]_vars

\* A cursor over two rows has delivered both.
C8_Witness ==
  \E k \in Callers :
    /\ cursor[k].open
    /\ Len(cursor[k].data) = 2
    /\ cursor[k].delivered = << <<Int64(1)>>, <<Int64(2)>> >>

\* C9: a call of Next on a cursor whose last call returned io.EOF returns
\* io.EOF again and changes neither the index nor the rows nor dest.
C9_ExhaustedStable ==
  [][\A k \in Callers : RowsNextCall(k) /\ cursor[k].last = "EOF" =>
       /\ cursor'[k].last = "EOF"
       /\ cursor'[k].index = cursor[k].index
       /\ cursor'[k].data = cursor[k].data
       /\ cursor'[k].dest = cursor[k].dest
       /\ cursor'[k].delivered = cursor[k].delivered]_vars

\* Next was called again on an exhausted cursor that had rows.
C9_Witness ==
  \E k \in Callers : cursor[k].open /\ cursor[k].eofs = 2 /\ Len(cursor[k].data) > 0

\* C10: a closed connection stays closed, and a Query or Exec that began
\* after Conn.Close returns an error.
C10_ClosedTerminal ==
  /\ [][\A c \in Conns : connState[c] = "Closed" => connState'[c] = "Closed"]_vars
  /\ [](\A k \in Callers :
          outcome[k].kind # "none" /\ outcome[k].closedAtStart => outcome[k].kind = "error")
  /\ [](\A k \in Callers : call[k].closedAtStart => call[k].pc = "idle")

\* A call on a closed connection has returned its error.
C10_Witness ==
  \E k \in Callers :
    /\ outcome[k].kind = "error"
    /\ outcome[k].closedAtStart
    /\ connState[stmt[k].conn] = "Closed"

\* The bytes of a stream are frames: after the `pending` payload bytes of
\* the frame being read come 4 header bytes that hold a length, that many
\* payload bytes, and so on; the stream may end anywhere in its last frame.
RECURSIVE Framed(_, _)
Framed(s, pending) ==
  IF s = <<>> THEN TRUE
  ELSE IF pending > 0 THEN ~s[1].hdr /\ Framed(Tail(s), pending - 1)
  ELSE IF Len(s) < 4 THEN \A i \in 1..Len(s) : s[i].hdr
  ELSE /\ \A i \in 1..4 : s[i].hdr
       /\ Framed(Drop(s, 4), Uint32(Bytes(Take(s, 4))))

\* The payload bytes the reader of a stream has yet to read of its frame.
ServerPending(c) == IF worker[c].pc = "readData" THEN worker[c].length ELSE 0
ClientPending(c) ==
  LET K == {k \in Callers : stmt[k].conn = c /\ call[k].pc = "recvData"}
  IN  IF K = {} THEN 0 ELSE call[CHOOSE k \in K : TRUE].length

\* C11: what a sender writes is the big-endian length of the payload and
\* then the payload, and the reader, having read a frame, stands at the
\* start of the next: both streams of a connection are sequences of frames
\* at every moment, the worker serves the very payload the caller
\* marshalled, and a frame of no payload is read as one.
C11_FrameRoundTrip ==
  /\ \A c \in Conns :
       /\ ~ServerGone(c) => Framed(c2s[c], ServerPending(c))
       /\ ~ClientGone(c) => Framed(s2c[c], ClientPending(c))
       /\ worker[c].pc \in {"handle", "writeLen", "writeData"} =>
            Len(worker[c].data) = worker[c].length
  /\ \A k \in Callers :
       LET c == stmt[k].conn IN
       /\ call[k].pc = "recvLen" /\ worker[c].pc \in {"handle", "writeLen", "writeData"}
            => worker[c].data = call[k].req
       /\ call[k].pc = "recvLen" /\ worker[c].pc = "readData"
            => worker[c].length = Len(call[k].req)

\* The worker of c2 has read a frame and, after it, a frame of no payload.
C11_Witness ==
  /\ worker["c2"].seq = 2
  /\ worker["c2"].pc = "handle"
  /\ worker["c2"].length = 0
  /\ worker["c2"].data = <<>>

\* The bytes a reader still needs of the length or of the payload it reads.
ServerNeeds(c) == IF worker[c].pc = "readLen" THEN 4 ELSE worker[c].length
ClientNeeds(k) == IF call[k].pc = "recvLen" THEN 4 ELSE call[k].length

\* C13: a read that ends before the 4 length bytes or the declared payload
\* have arrived ends the worker with nothing classified, no engine call
\* and nothing written, and ends the caller's Query/Exec with an error and
\* the cursor it had; a worker that handles a frame holds all of it.
C13_NoPartialFrame ==
  /\ [](\A c \in Conns :
          worker[c].handler # "none" \/ worker[c].engine # "none"
            => Len(worker[c].data) = worker[c].length)
  /\ [][\A c \in Conns :
          /\ worker[c].pc \in {"readLen", "readData"}
          /\ Len(c2s[c]) < ServerNeeds(c)
          /\ worker'[c] # worker[c]
          => /\ worker'[c].pc \in {"closed", "crashed"}
             /\ worker'[c].handler = "none"
             /\ worker'[c].engine = "none"
             /\ worker'[c].seq = worker[c].seq
             /\ s2c'[c] = s2c[c]]_vars
  /\ [][\A k \in Callers :
          /\ call[k].pc \in {"recvLen", "recvData"}
          /\ Len(s2c[stmt[k].conn]) < ClientNeeds(k)
          /\ call'[k] # call[k]
          => /\ call'[k] = NoCall
             /\ outcome'[k].kind = "error"
             /\ cursor'[k] = cursor[k]]_vars

\* t1 read the length of a response whose payload never came, the process
\* having died in between, and its call returned the error of the read.
C13_Witness ==
  /\ outcome["t1"].kind = "error"
  /\ outcome["t1"].err = "read"
  /\ outcome["t1"].from # {}
  /\ sock["c1"] = "open"
  /\ panic = "c2"

\* C14: Conn.Prepare returns a statement of the given text on a Conn that
\* is open or closed alike, and changes nothing else: no byte is written or
\* read and the service does nothing; a thread that has prepared and not
\* yet called Query or Exec has sent nothing.
C14_PrepareLocal ==
  /\ [][\A k \in Callers, c \in Conns, q \in QueryTexts :
          Prepare(k, c, q) =>
            /\ stmt'[k].conn = c /\ stmt'[k].query = q
            /\ UNCHANGED << wireVars, serverVars, connState, sock, call, outcome,
                            cursor, begun, nCalls >>]_vars
  /\ [](\A c \in Conns, q \in QueryTexts :
          connState[c] \in {"Connected", "Closed"}
          /\ stmt["t1"] = NoStmt /\ call["t1"].pc = "idle"
            => ENABLED Prepare("t1", c, q))
  /\ [](\A k \in Callers :
          stmt[k] # NoStmt /\ call[k] = NoCall /\ outcome[k].kind = "none"
            => \A c \in Conns :
                 /\ \A i \in 1..Len(c2s[c]) : c2s[c][i].k # k
                 /\ \A i \in 1..Len(s2c[c]) : s2c[c][i].k # k
                 /\ worker[c].rid.k # k)

\* t1 holds a statement on a closed Conn and has sent nothing; the worker
\* had been waiting for a frame and has seen the connection end.
C14_Witness ==
  /\ stmt["t1"].conn = "c1"
  /\ connState["c1"] = "Closed"
  /\ nCalls = 0
  /\ worker["c1"].pc = "closed"

\* C15: a call of Stmt.Close or of Rows.Close returns nil, the first and
\* every later one, and changes nothing else: no byte is written or read,
\* the connection stays as it was, and the statement's connection and text
\* and the cursor's rows, index and dest stay what they were.
C15_CloseLocal ==
  /\ [][\A k \in Callers : StmtClose(k) =>
          /\ stmt'[k].conn = stmt[k].conn /\ stmt'[k].query = stmt[k].query
          /\ stmt[k].closes < MaxCloses => stmt'[k].closes = stmt[k].closes + 1
          /\ UNCHANGED << wireVars, serverVars, connState, sock, call, outcome,
                          cursor, begun, nCalls >>]_vars
  /\ [][\A k \in Callers : RowsClose(k) =>
          /\ cursor'[k] = [cursor[k] EXCEPT !.closes = cursor'[k].closes]
          /\ cursor[k].closes < MaxCloses => cursor'[k].closes = cursor[k].closes + 1
          /\ UNCHANGED << wireVars, serverVars, connState, sock, call, outcome,
                          stmt, begun, nCalls >>]_vars
  /\ [](\A k \in Callers :
          /\ stmt[k] # NoStmt /\ call[k].pc = "idle" => ENABLED StmtClose(k)
          /\ cursor[k] # NoRows /\ call[k].pc = "idle" => ENABLED RowsClose(k))

\* The statement and the rows of t1 have each been closed twice, with one
\* of two rows read, and a second call is under way on the open connection.
C15_Witness ==
  /\ stmt["t1"].closes = 2
  /\ cursor["t1"].open /\ cursor["t1"].closes = 2
  /\ cursor["t1"].index = 1 /\ Len(cursor["t1"].data) = 2
  /\ connState["c1"] = "Connected"
  /\ call["t1"].pc = "recvLen"

\* C16: an Exec whose write the engine carried out is served by handleExec
\* and answered with an ExecResponse that holds the engine's rows affected
\* and last insert id, 0 standing for the one the engine does not support,
\* and the Result that Stmt.Exec returns holds the same two numbers.
C16_ExecResult ==
  /\ \A c \in Conns :
       worker[c].rid.op = "Exec" /\ worker[c].engine = "ok" =>
         /\ worker[c].handler = "handleExec"
         /\ worker[c].pc \in {"writeLen", "writeData"}
         /\ \E e \in EngineExecOk : worker[c].resp = MarshalExecResponse(e.n, e.id)
  /\ \A k \in Callers :
       outcome[k].kind = "result" =>
         \E e \in EngineExecOk :
           outcome[k].rowsAffected = e.n /\ outcome[k].lastInsertID = e.id

\* C17: a worker that has read a frame goes back to reading only after
\* both writes of sendResponse went through; when a write fails, or the
\* handler returns without a response, the worker returns and its
\* connection is closed.
C17_OneResponse ==
  [][\A c \in Conns :
       /\ (WriteLength(c, FALSE) \/ WritePayload(c, FALSE)) =>
            worker'[c].pc = "closed"
       /\ worker[c].pc = "handle" /\ worker'[c].pc # "handle" =>
            worker'[c].pc \in {"writeLen", "closed", "crashed"}]_vars

\* C18: a frame whose payload does not decode as a request is handed to no
\* engine call, neither Query nor Exec, and the worker that read it
\* returns, which closes the connection.
C18_MalformedBody ==
  \A c \in Conns :
    worker[c].handler # "none" /\ ~UnmarshalRequestOk(worker[c].data) =>
      worker[c].engine = "none" /\ worker[c].pc = "closed"

\* The client has closed c and nothing of it is left to serve.
ClientLeft(c) ==
  /\ ClientGone(c)
  /\ c2s[c] = <<>>
  /\ worker[c].pc \in {"unborn", "readLen", "closed"}

\* C19: once the client has closed its connection with no request in
\* flight, the worker returns from handleConnection, which closes the
\* service's end of the socket; from the close on it reads no frame, calls
\* no handler and no engine, and writes nothing.
C19_WorkerExits ==
  /\ \A c \in Conns : ClientLeft(c) ~> worker[c].pc \in {"closed", "crashed"}
  /\ [][\A c \in Conns : ClientLeft(c) =>
          /\ ClientLeft(c)'
          /\ worker'[c].seq = worker[c].seq
          /\ worker'[c].answered = worker[c].answered
          /\ worker'[c].handler = worker[c].handler
          /\ worker'[c].engine = worker[c].engine
          /\ s2c'[c] = s2c[c]]_vars

\* The one call of t1 was answered and returned, t1 then closed the Conn,
\* and the worker has returned.
C19_Witness ==
  /\ nCalls = 1
  /\ outcome["t1"].kind \in {"rows", "result"}
  /\ call["t1"].pc = "idle"
  /\ connState["c1"] = "Closed"
  /\ worker["c1"].pc = "closed"
  /\ worker["c1"].seq = 1 /\ worker["c1"].answered = 1

====
